---- MODULE Spec2Model ----
(***************************************************************************)
(* The MCP client of EconomIAssist (src/src/agent/mcp_client.py):          *)
(* MCPServerConnection drives one child process over its stdio pipes with  *)
(* newline-delimited JSON-RPC; MCPManager owns the connections by name.    *)
(*                                                                         *)
(* The state machines of this module:                                      *)
(*   Spec       one MCPServerConnection and its child, from __init__ on,   *)
(*              used by one coroutine at a time (LiveSpec adds the event   *)
(*              loop's fairness);                                          *)
(*   ConcSpec   a connected MCPServerConnection used by two tasks at once; *)
(*   ReadSpec   _read_response applied to a bounded stream of child lines; *)
(*   MgrSpec    MCPManager.connect_server and disconnect_all under         *)
(*              overlapping tasks;                                         *)
(*   RouteSpec  call_tool_by_function_name over connected servers;         *)
(*   SmartSpec  call_tool_smart with its on-demand connects;               *)
(*   AutoSpec   auto_connect_servers over registries and environments;     *)
(*   FrameSpec  auto_connect_servers, then calls, with failures;           *)
(*   ConfigSpec the registry's config file and connect() of Docker specs;  *)
(*   EnvSpec    is_available and get_runtime_env of one spec.              *)
(***************************************************************************)
EXTENDS Naturals, Sequences, FiniteSets

\* ------------------------------------------------------------------ bounds
MaxReq == 5        \* requests that callers start only while nextId <= MaxReq
MaxOut == 2        \* lines the child may have written and the client not yet read
StdinCap == 4      \* what the pipe to the child holds before drain() waits, in small messages
MaxStream == 5     \* non-protocol lines at most before the response in ReadSpec
MaxSpawn == 2      \* Connection objects the Manager may create in MgrSpec
MaxCalls == 2      \* calls the Manager forwards to Connections in RouteSpec
MaxEntries == 2    \* server entries of the config file in ConfigSpec

\* ------------------------------------------------------- program constants
max_attempts == 5

\* coroutines on the one event loop: ConversationManager.add_message starts
\* a task per user, and all of them use the one agent and its MCPManager
Tasks == {"t1", "t2"}
Main == "t1"
ServerNames == {"tavily", "bcra"}
ToolNames == {"search", "extract"}
Uris == {"kb://docs"}
NoName == "NONAME"
\* what a child may answer to tools/list and resources/list: the entries of
\* result.tools / result.resources in order, NoName an entry without the key
ToolLists == {<<>>, <<"search">>, <<"search", NoName>>}
ResourceLists == {<<>>, <<"kb://docs">>}
StatusPrefixes == {"MCP", "Server", "Authentication", "Calendar"}

VARIABLES
    \* ---- MCPServerConnection
    proc,          \* self.process: "none", or the child "alive", "exited", "terminated"
    is_connected,  \* self.is_connected
    tools,         \* keys of self.tools
    resources,     \* keys of self.resources
    \* ---- pipes of the child
    stdin,         \* requests written by the client, not yet read by the child
    stdout,        \* lines written by the child, not yet read by the client
    waiter,        \* the task suspended inside stdout.readline(), or "none"
    \* ---- tasks (coroutines running a method of the connection)
    pc,            \* "idle", "drain", "read", "sleep", "wait"
    op,            \* the request method the task is (or was last) carrying out
    req,           \* sequence number of the request the task wrote last
    attempt,       \* loop counter of _read_response
    last,          \* the latest return: operation, its request, value, cause (history)
    nextId,        \* sequence number of the next request written (history)
    connectCalled, \* connect() was invoked on this object
    errorSeen,     \* a tools/call was answered with an error envelope (history)
    handshakeDone, \* initialize was answered with a result and the notification
                   \* notifications/initialized was written (history)
    stream,        \* ReadSpec: the child output that _read_response is given (history)
    \* ---- MCPManager (MgrSpec)
    connections,   \* self.connections: the dict as its items in insertion order
    conns,         \* the MCPServerConnection objects created so far
    mpc,           \* where each task is inside connect_server: "idle", "connecting"
    mconn,         \* the object (index in conns) the task's connect_server has created
    mcall,         \* the Manager operation in progress and its local variables
    mlast,         \* the latest return of a Manager or Registry operation (history)
    sent,          \* the call_tool invocations the Manager has forwarded (history)
    \* ---- MCPServerRegistry and the process environment
    servers,       \* registry.servers: the dict as its specs in insertion order
    environ,       \* os.environ, by key
    commands,      \* what connect() has run and written, in order (history)
    config,        \* the parsed config file: the items of mcp_servers, in order
    container,     \* the named Docker container: "none", "detached", "interactive"
    config_file    \* the file at config_path: "missing", "user" (written by the
                   \* user), "generated" (written by _create_default_config)

connVars == <<proc, is_connected, tools, resources>>
pipeVars == <<stdin, stdout, waiter>>
taskVars == <<pc, op, req, attempt, last, nextId, connectCalled, errorSeen,
             handshakeDone>>
mgrVars == <<connections, conns, mpc, mconn>>
callVars == <<mcall, mlast, sent>>
regVars == <<servers, environ, commands, config, container, config_file>>
otherVars == <<stream, mgrVars, callVars, regVars>>
vars == <<connVars, pipeVars, taskVars, otherVars>>

\* ------------------------------------------------------------------ lines
\* One line of the child's stdout, by what _read_response looks at: blank
\* after strip(), its first word, whether its lower-cased text contains
\* "started", and whether json.loads accepts it (then: what it parses to).
BlankLine ==
    [kind |-> "blank", prefix |-> "", started |-> FALSE, body |-> "", id |-> 0,
     method |-> "", items |-> <<>>]
TextLine(prefix, started) ==
    [kind |-> "text", prefix |-> prefix, started |-> started, body |-> "", id |-> 0,
     method |-> "", items |-> <<>>]
\* a JSON object: body "result", "error" or "other" (neither key); id and
\* method say which request it answers; started: its text contains "started"
JsonLine(body, id, method, items, started) ==
    [kind |-> "json", prefix |-> "{", started |-> started, body |-> body, id |-> id,
     method |-> method, items |-> items]

\* Python values: None, and the dict json.loads makes of a JSON line
None == [kind |-> "none", body |-> "", id |-> 0, method |-> "", items |-> <<>>]
Parsed(line) ==
    [kind |-> "dict", body |-> line.body, id |-> line.id, method |-> line.method,
     items |-> line.items]

\* mcp_client.py:157-179: the lines the scan skips
SkipsLine(line) ==
    \/ line.kind = "blank"
    \/ line.prefix \in StatusPrefixes
    \/ line.started
    \/ line.kind # "json"

\* a plausible slip: `if response:`, whatever the response holds
HasResponse(resp) == resp.kind = "dict"

\* `response and "result" in response`
HasResult(resp) == resp.kind = "dict" /\ resp.body = "result"
HasError(resp) == resp.kind = "dict" /\ resp.body = "error"

\* ------------------------------------------------------- the Connection
\* _discover_tools, mcp_client.py:211-217: the loop stores the entries in
\* order and raises KeyError at the first entry without "name"; what it
\* stored before stays in self.tools
RECURSIVE StoredBefore(_)
StoredBefore(items) ==
    IF items = <<>> \/ Head(items) = NoName THEN {}
    ELSE {Head(items)} \cup StoredBefore(Tail(items))

\* response["result"].get("tools", []) / .get("resources", []) / .get("contents", [])
ListOf(resp, method) == IF resp.method = method THEN resp.items ELSE <<>>

Busy(t) == pc[t] # "idle"

\* values handed to the caller
RetNone == [kind |-> "none", id |-> 0]
RetTrue == [kind |-> "true", id |-> 0]
RetFalse == [kind |-> "false", id |-> 0]
RetRaise == [kind |-> "raise", id |-> 0]
\* response["result"] (or a text taken from it), with the request that the
\* response it was taken from answers
RetResult(resp) == [kind |-> "result", id |-> resp.id]

\* the coroutine `oper` of task t returns `value` to its caller
Return(t, oper, value, why) ==
    /\ pc' = [pc EXCEPT ![t] = "idle"]
    /\ op' = [op EXCEPT ![t] = "none"]
    /\ req' = [req EXCEPT ![t] = 0]
    /\ attempt' = [attempt EXCEPT ![t] = 0]
    /\ last' = [oper |-> oper, req |-> req[t], ret |-> value, cause |-> why]
    /\ errorSeen' = (errorSeen \/ (oper = "call_tool" /\ why = "error_envelope"))
    /\ UNCHANGED handshakeDone

\* what is written to the child and not yet read by it
RECURSIVE Pending(_)
Pending(q) == IF q = <<>> THEN 0 ELSE Head(q).size + Pending(Tail(q))

\* the arguments of a tool call are the caller's: a few bytes, or as much as
\* the pipe holds
Arguments == {"small", "big"}
Size(arguments) == IF arguments = "big" THEN StdinCap ELSE 1

\* _send_request, mcp_client.py:138-145, on a live child: write() queues the
\* message; drain() returns at once unless the pipe is over its limit
Written(t, method, arg, size) ==
    /\ stdin' = Append(stdin, [id |-> nextId, method |-> method, arg |-> arg,
                               size |-> size])
    /\ nextId' = nextId + 1
    /\ req' = [req EXCEPT ![t] = nextId]
    /\ op' = [op EXCEPT ![t] = method]
    /\ attempt' = [attempt EXCEPT ![t] = 0]
    /\ pc' = [pc EXCEPT ![t] = IF Pending(stdin) + size > StdinCap THEN "drain" ELSE "read"]
    /\ UNCHANGED <<last, errorSeen, handshakeDone>>

\* the notification carries no id and no response is read for it
WrittenNotification(t) ==
    /\ stdin' = Append(stdin, [id |-> 0, method |-> "initialized", arg |-> "",
                               size |-> 1])
    /\ op' = [op EXCEPT ![t] = "initialized"]
    /\ req' = [req EXCEPT ![t] = 0]
    /\ attempt' = [attempt EXCEPT ![t] = 0]
    /\ pc' = [pc EXCEPT ![t] = IF Pending(stdin) + 1 > StdinCap THEN "drain" ELSE "sleep"]
    /\ UNCHANGED <<nextId, last, errorSeen>>

\* _send_request raises when the transport to the child is lost
SendRaises == proc # "alive"

\* connect(), mcp_client.py:56-108: spawn the child and write initialize.
\* create_subprocess_exec may raise (except at 134: return False).
connect(t) ==
    /\ pc[t] = "idle" /\ ~connectCalled
    /\ connectCalled' = TRUE
    /\ \/ /\ proc' = "alive"
          /\ Written(t, "initialize", "", 1)
       \/ /\ Return(t, "connect", RetFalse, "spawn_error")
          /\ UNCHANGED <<proc, stdin, nextId>>
    /\ UNCHANGED <<is_connected, tools, resources, stdout, waiter>>
    /\ UNCHANGED otherVars

\* a plausible slip: _discover_resources without its own try/except, so that
\* a raising send reaches the except of connect()
DiscoverResourcesUncaught(t) ==
    IF SendRaises
    THEN /\ Return(t, "connect", RetFalse, "send_error")
         /\ UNCHANGED <<stdin, nextId>>
    ELSE Written(t, "resources/list", "", 1)

\* _discover_resources up to its read, mcp_client.py:223-233, as the tail of
\* a step of connect(): a raising send is caught at 247 and connect returns True
DiscoverResources(t) ==
    IF SendRaises
    THEN /\ Return(t, "connect", RetTrue, "connected")
         /\ UNCHANGED <<stdin, nextId>>
    ELSE Written(t, "resources/list", "", 1)

\* a plausible slip: _discover_tools without its own try/except, so that a
\* raising send reaches the except of connect()
DiscoverToolsUncaught(t) ==
    IF SendRaises
    THEN /\ Return(t, "connect", RetFalse, "send_error")
         /\ UNCHANGED <<stdin, nextId>>
    ELSE Written(t, "tools/list", "", 1)

\* _discover_tools up to its read, mcp_client.py:197-207; a raising send is
\* caught at 220 and connect goes on with _discover_resources
DiscoverTools(t) ==
    IF SendRaises
    THEN DiscoverResources(t)
    ELSE Written(t, "tools/list", "", 1)

\* connect() sets the flag, mcp_client.py:123
SetConnected == is_connected' = TRUE

\* connect() after the 0.1 s sleep, mcp_client.py:121-126
sleep_done(t) ==
    /\ pc[t] = "sleep"
    /\ SetConnected
    /\ DiscoverTools(t)
    /\ UNCHANGED <<proc, tools, resources, stdout, waiter, connectCalled>>
    /\ UNCHANGED otherVars

\* t is inside connect(). MCPManager.connect_server (mcp_client.py:530-542)
\* holds the new object in a local until connect() has returned, so no
\* other coroutine calls a method of a Connection that is still connecting.
InConnect(t) ==
    Busy(t) /\ op[t] \in {"initialize", "initialized", "tools/list", "resources/list"}
Connecting == \E u \in Tasks : InConnect(u)

\* a plausible slip: the membership test left out
KnowsAnyTool(name) == TRUE

\* the guard of call_tool, mcp_client.py:256
KnowsTool(name) == name \in tools

\* call_tool up to its read, mcp_client.py:250-272
call_tool(t, name, arguments) ==
    /\ pc[t] = "idle" /\ nextId <= MaxReq
    /\ ~Connecting
    /\ IF ~is_connected
       THEN /\ Return(t, "call_tool", RetNone, "not_connected")
            /\ UNCHANGED <<stdin, nextId>>
       ELSE IF ~KnowsTool(name)
       THEN /\ Return(t, "call_tool", RetNone, "unknown_tool")
            /\ UNCHANGED <<stdin, nextId>>
       ELSE IF SendRaises
       THEN /\ Return(t, "call_tool", RetNone, "send_error")
            /\ UNCHANGED <<stdin, nextId>>
       ELSE Written(t, "tools/call", name, Size(arguments))
    /\ UNCHANGED <<connVars, stdout, waiter, connectCalled>>
    /\ UNCHANGED otherVars

\* read_resource up to its read, mcp_client.py:306-323
read_resource(t, uri) ==
    /\ pc[t] = "idle" /\ nextId <= MaxReq
    /\ ~Connecting
    /\ IF ~is_connected
       THEN /\ Return(t, "read_resource", RetNone, "not_connected")
            /\ UNCHANGED <<stdin, nextId>>
       ELSE IF SendRaises
       THEN /\ Return(t, "read_resource", RetNone, "send_error")
            /\ UNCHANGED <<stdin, nextId>>
       ELSE Written(t, "resources/read", uri, 1)
    /\ UNCHANGED <<connVars, stdout, waiter, connectCalled>>
    /\ UNCHANGED otherVars

\* the operation a request method belongs to
OperOf(method) ==
    CASE method = "tools/call" -> "call_tool"
      [] method = "resources/read" -> "read_resource"
      [] OTHER -> "connect"

\* an exception inside the try of the running operation: connect() returns
\* False (134-136), the discovery steps swallow it (220, 247) and connect()
\* goes on, call_tool and read_resource return None (302-304, 332-334)
Raise(t, why) ==
    /\ UNCHANGED connVars
    /\ CASE op[t] \in {"initialize", "initialized"} ->
               /\ Return(t, "connect", RetFalse, why)
               /\ UNCHANGED <<stdin, nextId>>
         [] op[t] = "tools/list" -> DiscoverResources(t)
         [] op[t] = "resources/list" ->
               /\ Return(t, "connect", RetTrue, "connected")
               /\ UNCHANGED <<stdin, nextId>>
         [] OTHER ->
               /\ Return(t, OperOf(op[t]), RetNone, why)
               /\ UNCHANGED <<stdin, nextId>>

\* why a response without "result" is a failure
WhyNot(resp, why) ==
    IF HasError(resp) THEN "error_envelope"
    ELSE IF resp.kind = "dict" THEN "no_result" ELSE why

\* a plausible slip: a failed call marks the connection as lost
CallToolResultDropsConnection(t, resp, why) ==
    IF HasResult(resp)
    THEN /\ Return(t, "call_tool", RetResult(resp), "result")
         /\ UNCHANGED connVars
    ELSE /\ Return(t, "call_tool", RetNone, WhyNot(resp, why))
         /\ is_connected' = FALSE
         /\ UNCHANGED <<proc, tools, resources>>

\* call_tool with the value of _read_response, mcp_client.py:274-300: the
\* result, or None after logging; no field of the connection is assigned
CallToolResult(t, resp, why) ==
    /\ IF HasResult(resp)
       THEN Return(t, "call_tool", RetResult(resp), "result")
       ELSE Return(t, "call_tool", RetNone, WhyNot(resp, why))
    /\ UNCHANGED connVars

\* read_resource with the value of _read_response, mcp_client.py:325-330
ReadResourceResult(t, resp, why) ==
    /\ IF HasResult(resp) /\ ListOf(resp, "resources/read") # <<>>
       THEN Return(t, "read_resource", RetResult(resp), "result")
       ELSE Return(t, "read_resource", RetNone, WhyNot(resp, why))
    /\ UNCHANGED connVars

\* what the operation does with the value of _read_response (`why` tells how
\* a None came about)
Finish(t, resp, why) ==
    CASE op[t] = "initialize" ->
            \* connect(), mcp_client.py:110-132
            /\ IF HasResult(resp)
               THEN IF SendRaises
                    THEN /\ Return(t, "connect", RetFalse, "send_error")
                         /\ UNCHANGED <<stdin, nextId>>
                    ELSE /\ WrittenNotification(t)
                         /\ handshakeDone' = (resp.body = "result")
               ELSE /\ Return(t, "connect", RetFalse, WhyNot(resp, why))
                    /\ UNCHANGED <<stdin, nextId>>
            /\ UNCHANGED connVars
      [] op[t] = "tools/list" ->
            \* _discover_tools, mcp_client.py:209-221, then connect():127
            /\ tools' = IF HasResult(resp)
                        THEN tools \cup StoredBefore(ListOf(resp, "tools/list"))
                        ELSE tools
            /\ DiscoverResources(t)
            /\ UNCHANGED <<proc, is_connected, resources>>
      [] op[t] = "resources/list" ->
            \* _discover_resources, mcp_client.py:235-248, then connect():129
            /\ resources' = IF HasResult(resp)
                            THEN resources \cup StoredBefore(ListOf(resp, "resources/list"))
                            ELSE resources
            /\ Return(t, "connect", RetTrue, "connected")
            /\ UNCHANGED <<stdin, nextId, proc, is_connected, tools>>
      [] op[t] = "tools/call" ->
            /\ CallToolResult(t, resp, why)
            /\ UNCHANGED <<stdin, nextId>>
      [] OTHER ->
            /\ ReadResourceResult(t, resp, why)
            /\ UNCHANGED <<stdin, nextId>>

\* await self.process.stdin.drain(), mcp_client.py:145, when it had to wait:
\* it resumes once the child has read enough, and raises once the child is gone
drain(t) ==
    /\ pc[t] = "drain"
    /\ IF SendRaises
       THEN Raise(t, "send_error")
       ELSE /\ Pending(stdin) <= StdinCap
            /\ pc' = [pc EXCEPT ![t] = IF op[t] = "initialized" THEN "sleep" ELSE "read"]
            /\ UNCHANGED <<op, req, attempt, last, errorSeen, handshakeDone, stdin, nextId,
                           connVars>>
    /\ UNCHANGED <<stdout, waiter, connectCalled>>
    /\ UNCHANGED otherVars

\* one pass of the loop of _read_response, mcp_client.py:155-195, with what
\* the operation does next when the loop ends
read_response(t) ==
    /\ pc[t] = "read"
    /\ IF stdout # <<>>
       THEN \* readline() has a line
            /\ stdout' = Tail(stdout)
            /\ waiter' = IF waiter = t THEN "none" ELSE waiter
            /\ IF SkipsLine(Head(stdout))
               THEN IF attempt[t] + 1 < max_attempts
                    THEN /\ attempt' = [attempt EXCEPT ![t] = attempt[t] + 1]
                         /\ UNCHANGED <<pc, op, req, last, errorSeen, handshakeDone, stdin, nextId,
                                        connVars>>
                    ELSE Finish(t, None, "scan_exhausted")
               ELSE Finish(t, Parsed(Head(stdout)), "parsed")
       ELSE IF proc # "alive"
       THEN \* end of file: readline() returns b""
            /\ waiter' = IF waiter = t THEN "none" ELSE waiter
            /\ Finish(t, None, "eof")
            /\ UNCHANGED stdout
       ELSE IF waiter = "none"
       THEN \* readline() suspends the task
            /\ waiter' = t
            /\ UNCHANGED <<stdout, pc, op, req, attempt, last, errorSeen, handshakeDone, stdin,
                           nextId, connVars>>
       ELSE IF waiter = t
       THEN \* asyncio.TimeoutError after 10 s
            /\ waiter' = "none"
            /\ Finish(t, None, "timeout")
            /\ UNCHANGED stdout
       ELSE \* RuntimeError: another coroutine is already waiting for data
            /\ Finish(t, None, "reader_busy")
            /\ UNCHANGED <<stdout, waiter>>
    /\ UNCHANGED connectCalled
    /\ UNCHANGED otherVars

\* disconnect() up to its await, mcp_client.py:336-340. Process.terminate()
\* raises ProcessLookupError once asyncio has reaped the child.
disconnect(t) ==
    /\ pc[t] = "idle" /\ connectCalled
    /\ ~Connecting
    /\ \/ /\ proc = "none"
          /\ Return(t, "disconnect", RetNone, "no_process")
          /\ UNCHANGED <<proc, stdin>>
       \/ /\ proc = "alive"
          /\ proc' = "terminated"
          /\ stdin' = <<>>
          /\ pc' = [pc EXCEPT ![t] = "wait"]
          /\ op' = [op EXCEPT ![t] = "disconnect"]
          /\ UNCHANGED <<req, attempt, last, errorSeen, handshakeDone>>
       \/ /\ proc \in {"exited", "terminated"}
          /\ pc' = [pc EXCEPT ![t] = "wait"]
          /\ op' = [op EXCEPT ![t] = "disconnect"]
          /\ UNCHANGED <<proc, stdin, req, attempt, last, errorSeen, handshakeDone>>
       \/ /\ proc \in {"exited", "terminated"}
          /\ Return(t, "disconnect", RetRaise, "process_lookup_error")
          /\ UNCHANGED <<proc, stdin>>
    /\ UNCHANGED <<is_connected, tools, resources, stdout, waiter, nextId, connectCalled>>
    /\ UNCHANGED otherVars

\* disconnect() after `await self.process.wait()`, mcp_client.py:341-342
wait_exit(t) ==
    /\ pc[t] = "wait"
    /\ proc # "alive"
    /\ is_connected' = FALSE
    /\ Return(t, "disconnect", RetNone, "disconnected")
    /\ UNCHANGED <<proc, tools, resources, pipeVars, nextId, connectCalled>>
    /\ UNCHANGED otherVars

\* ------------------------------------------------------------ the child
\* what a child may put in the list of a result, by method
ItemsFor(method) ==
    CASE method = "tools/list" -> ToolLists
      [] method = "resources/list" -> ResourceLists
      [] method = "resources/read" -> {<<>>, <<"text">>}
      [] OTHER -> {<<>>}

\* the lines a child may write in answer to request r
Answers(r) ==
    {JsonLine("result", r.id, r.method, items, FALSE) : items \in ItemsFor(r.method)}
    \cup {JsonLine("error", r.id, r.method, <<>>, FALSE)}
    \cup (IF r.method = "tools/call"
          THEN {JsonLine("result", r.id, r.method, <<>>, TRUE)} ELSE {})

\* lines a child writes unasked: a status banner, a JSON notification
NoiseLines == {TextLine("Server", TRUE), JsonLine("other", 0, "notification", <<>>, FALSE)}

\* the child reads the next request and answers it, or not
child_answer ==
    /\ proc = "alive" /\ stdin # <<>>
    /\ stdin' = Tail(stdin)
    /\ \/ UNCHANGED stdout
       \/ /\ Head(stdin).method # "initialized"
          /\ Len(stdout) < MaxOut
          /\ \E line \in Answers(Head(stdin)) : stdout' = Append(stdout, line)
    /\ UNCHANGED <<connVars, waiter, taskVars>>
    /\ UNCHANGED otherVars

child_noise ==
    /\ proc = "alive" /\ Len(stdout) < MaxOut
    /\ \E line \in NoiseLines : stdout' = Append(stdout, line)
    /\ UNCHANGED <<connVars, stdin, waiter, taskVars>>
    /\ UNCHANGED otherVars

child_exit ==
    /\ proc = "alive"
    /\ proc' = "exited"
    /\ stdin' = <<>>
    /\ UNCHANGED <<is_connected, tools, resources, stdout, waiter, taskVars>>
    /\ UNCHANGED otherVars

\* --------------------------------------------------------- specification
\* __init__, mcp_client.py:48-54
ConnInit ==
    /\ proc = "none" /\ is_connected = FALSE /\ tools = {} /\ resources = {}
    /\ stdin = <<>> /\ stdout = <<>> /\ waiter = "none"

NoReturn == [oper |-> "none", req |-> 0, ret |-> RetNone, cause |-> "none"]

TaskInit ==
    /\ pc = [t \in Tasks |-> "idle"]
    /\ op = [t \in Tasks |-> "none"]
    /\ req = [t \in Tasks |-> 0]
    /\ attempt = [t \in Tasks |-> 0]
    /\ last = NoReturn
    /\ nextId = 1
    /\ connectCalled = FALSE
    /\ errorSeen = FALSE
    /\ handshakeDone = FALSE

ReadIdle == stream = <<>>
\* MCPManager.__init__, mcp_client.py:473-476
NoCall == [oper |-> "none"]
CallIdle == mcall = NoCall /\ mlast = NoCall /\ sent = <<>>
RegIdle ==
    /\ servers = <<>> /\ environ = <<>> /\ commands = <<>>
    /\ config = <<>> /\ container = "none" /\ config_file = "missing"
MgrInit ==
    /\ connections = <<>> /\ conns = <<>>
    /\ mpc = [t \in Tasks |-> "idle"] /\ mconn = [t \in Tasks |-> 0]
    /\ CallIdle /\ RegIdle

Init == ConnInit /\ TaskInit /\ ReadIdle /\ MgrInit

\* one coroutine at a time uses the Connection
Next ==
    \/ connect(Main)
    \/ sleep_done(Main)
    \/ \E name \in ToolNames, arguments \in Arguments : call_tool(Main, name, arguments)
    \/ \E uri \in Uris : read_resource(Main, uri)
    \/ drain(Main)
    \/ read_response(Main)
    \/ disconnect(Main)
    \/ wait_exit(Main)
    \/ child_answer
    \/ child_noise
    \/ child_exit

Spec == Init /\ [][Next]_vars

\* the event loop runs every coroutine that can go on, and the 10 s timer of
\* wait_for fires; nothing makes the child read or write
LiveSpec ==
    /\ Spec
    /\ WF_vars(drain(Main))
    /\ WF_vars(read_response(Main))
    /\ WF_vars(sleep_done(Main))
    /\ WF_vars(wait_exit(Main))

\* ------------------------------------------- two tasks on one Connection
\* the Connection as a successful connect() leaves it (a state of Spec), now
\* registered in self.connections and reachable by every task
ConcInit ==
    /\ proc = "alive" /\ is_connected = TRUE
    /\ tools = {"search"} /\ resources = {"kb://docs"}
    /\ stdin = <<>> /\ stdout = <<>> /\ waiter = "none"
    /\ pc = [t \in Tasks |-> "idle"]
    /\ op = [t \in Tasks |-> "none"]
    /\ req = [t \in Tasks |-> 0]
    /\ attempt = [t \in Tasks |-> 0]
    /\ last = [oper |-> "connect", req |-> 3, ret |-> RetTrue, cause |-> "connected"]
    /\ nextId = 4
    /\ connectCalled = TRUE
    /\ errorSeen = FALSE
    /\ handshakeDone = TRUE
    /\ ReadIdle /\ MgrInit

ConcNext ==
    \/ \E t \in Tasks, name \in ToolNames, arguments \in Arguments :
          call_tool(t, name, arguments)
    \/ \E t \in Tasks, uri \in Uris : read_resource(t, uri)
    \/ \E t \in Tasks : drain(t)
    \/ \E t \in Tasks : read_response(t)
    \/ \E t \in Tasks : disconnect(t)
    \/ \E t \in Tasks : wait_exit(t)
    \/ child_answer
    \/ child_noise
    \/ child_exit

ConcSpec == ConcInit /\ [][ConcNext]_vars

\* ------------------------------------------- _read_response on a stream
\* lines that are no protocol message: blank lines, status banners, text
\* that is not JSON (with or without the word "started")
NonProtocolLines ==
    {BlankLine}
    \cup {TextLine(p, FALSE) : p \in StatusPrefixes}
    \cup {TextLine("other", b) : b \in BOOLEAN}

SeqsUpTo(S, n) == UNION {[1..k -> S] : k \in 0..n}

\* request 4 is the tools/call that is being read for
ReadRequest == [id |-> 4, method |-> "tools/call", arg |-> "search", size |-> 1]

\* child output: non-protocol lines, then nothing or one answer to the request
Streams ==
    {noise \o tail : noise \in SeqsUpTo(NonProtocolLines, MaxStream),
                     tail \in {<<>>} \cup {<<line>> : line \in Answers(ReadRequest)}}

\* call_tool has written its request and enters _read_response with the
\* child's whole output waiting in the pipe
ReadInit ==
    /\ stream \in Streams
    /\ stdout = stream
    /\ proc = "alive" /\ is_connected = TRUE
    /\ tools = {"search"} /\ resources = {}
    /\ stdin = <<>> /\ waiter = "none"
    /\ pc = [t \in Tasks |-> IF t = Main THEN "read" ELSE "idle"]
    /\ op = [t \in Tasks |-> IF t = Main THEN "tools/call" ELSE "none"]
    /\ req = [t \in Tasks |-> IF t = Main THEN ReadRequest.id ELSE 0]
    /\ attempt = [t \in Tasks |-> 0]
    /\ last = [oper |-> "connect", req |-> 3, ret |-> RetTrue, cause |-> "connected"]
    /\ nextId = ReadRequest.id + 1
    /\ connectCalled = TRUE
    /\ errorSeen = FALSE
    /\ handshakeDone = TRUE
    /\ MgrInit

ReadNext == read_response(Main)

ReadSpec == ReadInit /\ [][ReadNext]_vars

\* ------------------------------------------------------------ MCPManager
Keys(items) == {items[i].name : i \in 1..Len(items)}

\* self.connections[name] = conn: a new key goes last, a key that is there
\* keeps its place and gets the new value
Put(items, name, conn) ==
    IF name \in Keys(items)
    THEN [i \in 1..Len(items) |->
             IF items[i].name = name THEN [name |-> name, conn |-> conn] ELSE items[i]]
    ELSE Append(items, [name |-> name, conn |-> conn])

\* the tool names a child of the Manager may list, each the sequence of its
\* words as in RouteTools
MgrTools == {<<"t">>}

MgrFrame == UNCHANGED <<connVars, pipeVars, taskVars, stream, callVars, regVars>>

\* connect_server up to the first await inside connection.connect(),
\* mcp_client.py:521-531 and 56-87: a name that is in self.connections
\* returns True at once; else a new Connection spawns its child
connect_server(t, name) ==
    /\ mpc[t] = "idle"
    /\ t = Main => mcall = NoCall
    /\ name \notin Keys(connections)
    /\ Len(conns) < MaxSpawn
    /\ \/ /\ conns' = Append(conns, [name |-> name, process |-> "alive",
                                     is_connected |-> FALSE, tools |-> {}])
          /\ mconn' = [mconn EXCEPT ![t] = Len(conns) + 1]
          /\ mpc' = [mpc EXCEPT ![t] = "connecting"]
       \/ \* create_subprocess_exec raised: connect() returns False
          /\ conns' = Append(conns, [name |-> name, process |-> "none",
                                     is_connected |-> FALSE, tools |-> {}])
          /\ UNCHANGED <<mconn, mpc>>
    /\ UNCHANGED connections
    /\ MgrFrame

\* connection.connect() returns and connect_server registers the object when
\* it succeeded, mcp_client.py:531-550; a failed connect() leaves its child
\* as it is (mcp_client.py:130-136: no terminate)
connect_returns(t) ==
    /\ mpc[t] = "connecting"
    /\ \/ \E discovered \in SUBSET MgrTools :
          /\ conns' = [conns EXCEPT ![mconn[t]].is_connected = TRUE,
                                    ![mconn[t]].tools = discovered]
          /\ connections' = Put(connections, conns[mconn[t]].name, mconn[t])
       \/ UNCHANGED <<conns, connections>>
    /\ mpc' = [mpc EXCEPT ![t] = "idle"]
    /\ mconn' = [mconn EXCEPT ![t] = 0]
    /\ MgrFrame

\* a child process ends by itself
process_exits(c) ==
    /\ c <= Len(conns)
    /\ conns[c].process = "alive"
    /\ conns' = [conns EXCEPT ![c].process = "exited"]
    /\ UNCHANGED <<connections, mpc, mconn>>
    /\ MgrFrame

RECURSIVE TotalTools(_)
TotalTools(items) ==
    IF items = <<>> THEN 0
    ELSE Cardinality(conns[Head(items).conn].tools) + TotalTools(Tail(items))

\* get_connection_stats, mcp_client.py:705-713, on a dict and its objects.
\* self.connection_stats is written and cleared together with
\* self.connections (542-543, 742-743) and has its keys at all times.
get_connection_stats ==
    [total_servers |-> Len(connections),
     connected_servers |->
         Cardinality({i \in 1..Len(connections) : conns[connections[i].conn].is_connected}),
     total_tools |-> TotalTools(connections)]

\* disconnect_all has returned or raised; `stats` is what get_connection_stats
\* reports next, `held` the objects that were in the dict (history)
DisconnectAllEnds(outcome, held) ==
    /\ mcall' = NoCall
    /\ mlast' = [oper |-> "disconnect_all", ret |-> outcome, held |-> held,
                 stats |-> get_connection_stats']

\* disconnect_all from the point where its loop asks for item i to its next
\* await or its end, mcp_client.py:729-748 with disconnect(), 336-340: the
\* dict iterator raises when the dict has changed size; terminate() raises
\* ProcessLookupError when the child is gone and reaped; after the last
\* item both dicts are cleared. `cs` is conns as the step has left it so far.
DisconnectFrom(cs, i, size, held) ==
    IF Len(connections) # size
    THEN /\ conns' = cs /\ UNCHANGED connections
         /\ DisconnectAllEnds("RuntimeError", held)
    ELSE IF i > size
    THEN /\ conns' = cs /\ connections' = <<>>
         /\ DisconnectAllEnds("None", held)
    ELSE LET c == connections[i].conn
         IN \/ /\ cs[c].process = "exited"
               /\ conns' = cs /\ UNCHANGED connections
               /\ DisconnectAllEnds("ProcessLookupError", held)
            \/ /\ conns' = [cs EXCEPT ![c].process =
                                          IF @ = "alive" THEN "terminated" ELSE @]
               /\ mcall' = [oper |-> "disconnect_all", i |-> i, conn |-> c,
                            size |-> size, held |-> held]
               /\ UNCHANGED <<connections, mlast>>

\* disconnect_all up to its first await (or to its end, with no connection),
\* mcp_client.py:725-736
disconnect_all ==
    /\ mcall = NoCall /\ mpc[Main] = "idle"
    /\ DisconnectFrom(conns, 1, Len(connections),
                      {connections[i].conn : i \in 1..Len(connections)})
    /\ UNCHANGED <<sent, mpc, mconn, regVars, stream, connVars, pipeVars, taskVars>>

\* await self.process.wait() returns: disconnect() clears is_connected,
\* mcp_client.py:340-342, and the loop of disconnect_all goes on
disconnect_next ==
    /\ mcall.oper = "disconnect_all"
    /\ DisconnectFrom([conns EXCEPT ![mcall.conn].is_connected = FALSE],
                      mcall.i + 1, mcall.size, mcall.held)
    /\ UNCHANGED <<sent, mpc, mconn, regVars, stream, connVars, pipeVars, taskVars>>

\* a plausible slip: the test of is_connected left out
ListsEveryServer(item) == TRUE

\* the test of mcp_client.py:582
ListsServer(item) == conns[item.conn].is_connected

\* get_available_tools, mcp_client.py:577-597: one entry, in the dict's
\* order, for each item whose connection is Connected, with the keys of its
\* tool map. The method has no await: it runs in one piece.
get_available_tools ==
    /\ LET listed == SelectSeq(connections, ListsServer)
       IN mlast' = [oper |-> "get_available_tools",
                    ret |-> [i \in 1..Len(listed) |->
                                [name |-> listed[i].name,
                                 tools |-> conns[listed[i].conn].tools]]]
    /\ UNCHANGED <<mcall, sent, mgrVars, regVars, stream, connVars, pipeVars, taskVars>>

MgrNext ==
    \/ \E t \in Tasks, name \in ServerNames : connect_server(t, name)
    \/ \E t \in Tasks : connect_returns(t)
    \/ \E c \in 1..MaxSpawn : process_exits(c)
    \/ disconnect_all
    \/ disconnect_next
    \/ get_available_tools

MgrSpec == Init /\ [][MgrNext]_vars

\* ---------------------------------------- call_tool_by_function_name
\* A name is the sequence of its words and of the "_" between them:
\* "srv_extra" is <<"srv", "_", "extra">>. One string starts with another
\* that ends in "_" exactly when the sequences do.
Us == <<"_">>
Srv == <<"srv">>
SrvExtra == <<"srv", "_", "extra">>
Extra == <<"extra">>
RouteServers == {Srv, SrvExtra, Extra}
RouteTools == {<<"t">>, <<"extra", "_", "t">>}

\* the names f"{srv}_{tool.name}" that _setup_mcp_tools gives to the model,
\* and one that no server has
FunctionNames ==
    {s \o Us \o t : s \in RouteServers, t \in RouteTools} \cup {<<"none", "_", "t">>}

\* str.startswith
StartsWith(str, prefix) ==
    /\ Len(prefix) <= Len(str)
    /\ SubSeq(str, 1, Len(prefix)) = prefix

\* a plausible slip: f"{server_name}_" in function_name
RoutesBySubstring(function_name, server_name) ==
    \E i \in 1..Len(function_name) :
        StartsWith(SubSeq(function_name, i, Len(function_name)), server_name \o Us)

\* the test of mcp_client.py:674
Routes(function_name, server_name) == StartsWith(function_name, server_name \o Us)

\* what connection.call_tool can hand back, mcp_client.py:250-304: None when
\* the Connection is not connected, does not know the tool or has lost its
\* child; else the result, or None after an error envelope or a timeout
CallOutcomes(c, tool_name) ==
    IF conns[c].is_connected /\ conns[c].process = "alive" /\ tool_name \in conns[c].tools
    THEN {"result", "None"}
    ELSE {"None"}

\* call_tool_by_function_name, mcp_client.py:669-703: the first item of
\* self.connections whose name and "_" start the function name gets
\* call_tool with the rest of the name, and what that returns is returned;
\* without one, ValueError
call_tool_by_function_name(function_name) ==
    /\ mcall = NoCall
    /\ Len(sent) < MaxCalls
    /\ LET hits == {i \in 1..Len(connections) :
                       Routes(function_name, connections[i].name)}
       IN IF hits = {}
          THEN /\ mlast' = [oper |-> "call_tool_by_function_name",
                            arg |-> function_name, ret |-> "ValueError"]
               /\ UNCHANGED sent
          ELSE LET i == CHOOSE h \in hits : \A g \in hits : h <= g
                   server_name == connections[i].name
                   tool_name == SubSeq(function_name, Len(server_name) + 2,
                                       Len(function_name))
               IN /\ sent' = Append(sent, [conn |-> connections[i].conn,
                                           tool |-> tool_name])
                  /\ \E result \in CallOutcomes(connections[i].conn, tool_name) :
                        mlast' = [oper |-> "call_tool_by_function_name",
                                  arg |-> function_name, ret |-> result]
    /\ UNCHANGED <<mcall, mgrVars, regVars, stream, connVars, pipeVars, taskVars>>

\* the orders in which the servers of a set can have been connected
Orders(S) == {o \in [1..Cardinality(S) -> S] : \A i, j \in 1..Cardinality(S) :
                                                    i # j => o[i] # o[j]}

\* the Manager after connect_server has succeeded for some servers, in some
\* order
RouteInit ==
    /\ ConnInit /\ TaskInit /\ ReadIdle /\ CallIdle /\ RegIdle
    /\ \E S \in SUBSET RouteServers : \E o \in Orders(S) :
          /\ conns = [i \in 1..Len(o) |->
                         [name |-> o[i], process |-> "alive", is_connected |-> TRUE,
                          tools |-> RouteTools]]
          /\ connections = [i \in 1..Len(o) |-> [name |-> o[i], conn |-> i]]
    /\ mpc = [t \in Tasks |-> "idle"] /\ mconn = [t \in Tasks |-> 0]

RouteNext == \E function_name \in FunctionNames : call_tool_by_function_name(function_name)

RouteSpec == RouteInit /\ [][RouteNext]_vars

\* ------------------------------------------------------ MCPServerRegistry
Unset == "UNSET"                 \* os.getenv(key) is None
EnvValues == {Unset, "", "v"}

\* os.getenv(key) as a condition: None and "" are both false
Truthy(value) == value # Unset /\ value # ""

\* MCPServerSpec.is_available, mcp_registry.py:30-35
is_available(spec) ==
    \A key \in spec.required_env_keys : Truthy(environ[key])

\* discover_available_servers, mcp_registry.py:190-202
discover_available_servers == SelectSeq(servers, is_available)

\* a plausible slip: the specs taken from self.servers, available or not
get_servers_by_capability_of_all(capability) ==
    LET Has(spec) == capability \in spec.capabilities
    IN SelectSeq(servers, Has)

\* get_servers_by_capability, mcp_registry.py:213-220
get_servers_by_capability(capability) ==
    LET Has(spec) == capability \in spec.capabilities
    IN SelectSeq(discover_available_servers, Has)

\* the spec registered under a name
SpecOf(name) == servers[CHOOSE i \in 1..Len(servers) : servers[i].name = name]

\* ----------------------------------------------------- call_tool_smart
\* a registry with two servers that share a capability: the built-in tavily
\* and bcra (mcp_registry.py:66-74, 105-114) and one entry of the config file
SmartServers ==
    << [name |-> "tavily", required_env_keys |-> {"TAVILY_API_KEY"},
        capabilities |-> {"web_search", "real_time_data"},
        priority |-> 10, auto_connect |-> TRUE],
       [name |-> "bcra", required_env_keys |-> {},
        capabilities |-> {"exchange_rates"},
        priority |-> 5, auto_connect |-> FALSE],
       [name |-> "news", required_env_keys |-> {},
        capabilities |-> {"web_search"},
        priority |-> 1, auto_connect |-> TRUE] >>
SmartCapabilities == {"web_search", "exchange_rates"}
SmartTools == {"search", "rates"}

\* connection.connect() on a new object and what connect_server does with
\* its result, mcp_client.py:530-550
Connected(name, success, discovered) ==
    /\ conns' = Append(conns, [name |-> name, process |-> "alive",
                               is_connected |-> success,
                               tools |-> IF success THEN discovered ELSE {}])
    /\ connections' = IF success THEN Put(connections, name, Len(conns) + 1)
                      ELSE connections

\* the names of the Connected items of self.connections that have the
\* capability, in the dict's order, mcp_client.py:602-605 and 618-621
ConnectedWith(items, capability) ==
    LET Has(item) == /\ conns[item.conn].is_connected
                     /\ capability \in SpecOf(item.name).capabilities
    IN SelectSeq(items, Has)

\* the first of these that has the tool, or 0
FirstWithTool(items, tool_name) ==
    LET hits == {i \in 1..Len(items) : tool_name \in conns[items[i].conn].tools}
    IN IF hits = {} THEN 0 ELSE CHOOSE h \in hits : \A g \in hits : h <= g

\* call_tool_smart up to its first await, mcp_client.py:599-615
call_tool_smart(capability, tool_name) ==
    /\ mcall = NoCall /\ mlast = NoCall
    /\ mcall' = [oper |-> "call_tool_smart", capability |-> capability,
                 tool_name |-> tool_name,
                 had |-> ConnectedWith(connections, capability) # <<>>,
                 keys0 |-> Keys(connections), conns0 |-> Len(conns),
                 todo |-> IF ConnectedWith(connections, capability) # <<>> THEN <<>>
                          ELSE get_servers_by_capability(capability)]
    /\ UNCHANGED <<mlast, sent, mgrVars, regVars, stream, connVars, pipeVars, taskVars>>

\* one turn of the loop of connect_servers_with_capability,
\* mcp_client.py:570-573, with connect_server, 521-550
connect_next_with_capability ==
    /\ mcall.oper = "call_tool_smart" /\ mcall.todo # <<>>
    /\ LET name == Head(mcall.todo).name
       IN IF name \in Keys(connections)
          THEN UNCHANGED <<conns, connections>>
          ELSE \E success \in BOOLEAN, discovered \in SUBSET SmartTools :
                  (success \/ discovered = {}) /\ Connected(name, success, discovered)
    /\ mcall' = [mcall EXCEPT !.todo = Tail(mcall.todo)]
    /\ UNCHANGED <<mlast, sent, mpc, mconn, regVars, stream, connVars, pipeVars, taskVars>>

\* what is known of a call_tool_smart when it returns
SmartReturn(result) ==
    [oper |-> "call_tool_smart", capability |-> mcall.capability,
     tool_name |-> mcall.tool_name, had |-> mcall.had, keys0 |-> mcall.keys0,
     conns0 |-> mcall.conns0, ret |-> result]

\* the routing of call_tool_smart, mcp_client.py:617-667: call_tool on the
\* first Connected server with the capability that has the tool, else None
route_smart ==
    /\ mcall.oper = "call_tool_smart" /\ mcall.todo = <<>>
    /\ LET cwc == ConnectedWith(connections, mcall.capability)
           i == FirstWithTool(cwc, mcall.tool_name)
       IN IF i = 0
          THEN /\ mlast' = SmartReturn("None")
               /\ UNCHANGED sent
          ELSE /\ sent' = Append(sent, [conn |-> cwc[i].conn, tool |-> mcall.tool_name])
               /\ \E result \in {"None", "result"} : mlast' = SmartReturn(result)
    /\ mcall' = NoCall
    /\ UNCHANGED <<mgrVars, regVars, stream, connVars, pipeVars, taskVars>>

\* the Manager after connect_server has succeeded for some servers of the
\* registry, in some order, with the tools each child listed
SmartInit ==
    /\ ConnInit /\ TaskInit /\ ReadIdle /\ CallIdle
    /\ servers = SmartServers
    /\ environ \in [{"TAVILY_API_KEY"} -> EnvValues]
    /\ commands = <<>> /\ config = <<>> /\ container = "none" /\ config_file = "missing"
    /\ \E S \in SUBSET Keys(SmartServers) : \E o \in Orders(S) :
       \E ts \in [1..Len(o) -> SUBSET SmartTools] :
          /\ conns = [i \in 1..Len(o) |->
                         [name |-> o[i], process |-> "alive", is_connected |-> TRUE,
                          tools |-> ts[i]]]
          /\ connections = [i \in 1..Len(o) |-> [name |-> o[i], conn |-> i]]
    /\ mpc = [t \in Tasks |-> "idle"] /\ mconn = [t \in Tasks |-> 0]

SmartNext ==
    \/ \E capability \in SmartCapabilities, tool_name \in SmartTools :
          call_tool_smart(capability, tool_name)
    \/ connect_next_with_capability
    \/ route_smart

SmartSpec == SmartInit /\ [][SmartNext]_vars

\* -------------------------------------------------- auto_connect_servers
\* a plausible slip: the filter on auto_connect left out
get_auto_connect_servers_of_all == discover_available_servers

\* get_auto_connect_servers, mcp_registry.py:204-211
get_auto_connect_servers ==
    LET Auto(spec) == spec.auto_connect
    IN SelectSeq(discover_available_servers, Auto)

\* a plausible slip: reverse=True left out
InsertByPriorityAscending(sorted, x) ==
    LET higher == {i \in 1..Len(sorted) : sorted[i].priority > x.priority}
        at == IF higher = {} THEN Len(sorted) + 1
              ELSE CHOOSE i \in higher : \A j \in higher : i <= j
    IN SubSeq(sorted, 1, at - 1) \o <<x>> \o SubSeq(sorted, at, Len(sorted))

\* sorted(..., reverse=True) puts x into a list that is already sorted:
\* before the first entry of lower priority, so after its equals
InsertByPriority(sorted, x) ==
    LET lower == {i \in 1..Len(sorted) : sorted[i].priority < x.priority}
        at == IF lower = {} THEN Len(sorted) + 1
              ELSE CHOOSE i \in lower : \A j \in lower : i <= j
    IN SubSeq(sorted, 1, at - 1) \o <<x>> \o SubSeq(sorted, at, Len(sorted))

RECURSIVE SortedByPriority(_)
\* sorted(available.items(), key=priority, reverse=True)
SortedByPriority(specs) ==
    IF specs = <<>> THEN <<>>
    ELSE InsertByPriority(SortedByPriority(SubSeq(specs, 1, Len(specs) - 1)),
                          specs[Len(specs)])

\* get_server_priorities, mcp_registry.py:222-230
get_server_priorities ==
    LET sorted_servers == SortedByPriority(discover_available_servers)
    IN [i \in 1..Len(sorted_servers) |-> sorted_servers[i].name]

\* registries of three specs, the built-in ones by name, as the config file
\* and the environment can make them
AutoNames == <<"tavily", "financial", "calendar">>
Priorities == {1, 5, 10}
AutoRegistries ==
    {[i \in 1..Len(AutoNames) |->
         [name |-> AutoNames[i], required_env_keys |-> keys[i],
          capabilities |-> {}, priority |-> prio[i], auto_connect |-> auto[i]]] :
       keys \in [1..Len(AutoNames) -> {{}, {"API_KEY"}}],
       prio \in [1..Len(AutoNames) -> Priorities],
       auto \in [1..Len(AutoNames) -> BOOLEAN]}

\* auto_connect_servers up to its loop, mcp_client.py:491-498
auto_connect_servers ==
    /\ mcall = NoCall /\ mlast = NoCall
    /\ mcall' = [oper |-> "auto_connect_servers",
                 auto_connect_specs |-> Keys(get_auto_connect_servers),
                 todo |-> get_server_priorities,
                 pending |-> 0,
                 connection_results |-> <<>>,
                 conns0 |-> Len(conns)]
    /\ UNCHANGED <<mlast, sent, mgrVars, regVars, stream, connVars, pipeVars, taskVars>>

\* one turn of the loop, mcp_client.py:499-502, up to the await inside
\* connect_server (521-531): a name that is not in auto_connect_specs is
\* passed over, one that is in self.connections gets True at once
auto_connect_next ==
    /\ mcall.oper = "auto_connect_servers" /\ mcall.pending = 0 /\ mcall.todo # <<>>
    /\ LET server_name == Head(mcall.todo)
       IN IF server_name \notin mcall.auto_connect_specs
          THEN /\ mcall' = [mcall EXCEPT !.todo = Tail(@)]
               /\ UNCHANGED conns
          ELSE IF server_name \in Keys(connections)
          THEN /\ mcall' = [mcall EXCEPT
                               !.todo = Tail(@),
                               !.connection_results =
                                   Append(@, [name |-> server_name, success |-> TRUE])]
               /\ UNCHANGED conns
          ELSE /\ conns' = Append(conns, [name |-> server_name, process |-> "alive",
                                          is_connected |-> FALSE, tools |-> {}])
               /\ mcall' = [mcall EXCEPT !.pending = Len(conns) + 1]
    /\ UNCHANGED <<connections, mlast, sent, mpc, mconn, regVars, stream, connVars,
                   pipeVars, taskVars>>

\* a plausible slip: a failed connect() resets self.connections
RegisteredOrReset(success, name, conn) ==
    IF success THEN Put(connections, name, conn) ELSE <<>>

\* `if success: self.connections[spec.name] = connection`, mcp_client.py:541-548
Registered(success, name, conn) ==
    IF success THEN Put(connections, name, conn) ELSE connections

\* connection.connect() returns inside connect_server, mcp_client.py:531-550,
\* and the loop stores the outcome, 503
auto_connect_returns ==
    /\ mcall.oper = "auto_connect_servers" /\ mcall.pending # 0
    /\ \E success \in BOOLEAN :
          /\ conns' = [conns EXCEPT ![mcall.pending].is_connected = success,
                                    ![mcall.pending].tools =
                                        IF success THEN MgrTools ELSE {}]
          /\ connections' = Registered(success, Head(mcall.todo), mcall.pending)
          /\ mcall' = [mcall EXCEPT
                          !.todo = Tail(@), !.pending = 0,
                          !.connection_results =
                              Append(@, [name |-> Head(mcall.todo), success |-> success])]
    /\ UNCHANGED <<mlast, sent, mpc, mconn, regVars, stream, connVars, pipeVars, taskVars>>

\* return connection_results, mcp_client.py:511-519
auto_connect_done ==
    /\ mcall.oper = "auto_connect_servers" /\ mcall.pending = 0 /\ mcall.todo = <<>>
    /\ mlast' = [oper |-> "auto_connect_servers", ret |-> mcall.connection_results,
                 conns0 |-> mcall.conns0]
    /\ mcall' = NoCall
    /\ UNCHANGED <<sent, mgrVars, regVars, stream, connVars, pipeVars, taskVars>>

\* a Manager with no connection yet, or with its first server connected
AutoInit ==
    /\ ConnInit /\ TaskInit /\ ReadIdle /\ CallIdle
    /\ servers \in AutoRegistries
    /\ environ \in [{"API_KEY"} -> EnvValues]
    /\ commands = <<>> /\ config = <<>> /\ container = "none" /\ config_file = "missing"
    /\ \/ conns = <<>> /\ connections = <<>>
       \/ /\ conns = <<[name |-> AutoNames[1], process |-> "alive",
                        is_connected |-> TRUE, tools |-> MgrTools]>>
          /\ connections = <<[name |-> AutoNames[1], conn |-> 1]>>
    /\ mpc = [t \in Tasks |-> "idle"] /\ mconn = [t \in Tasks |-> 0]

AutoNext ==
    \/ auto_connect_servers
    \/ auto_connect_next
    \/ auto_connect_returns
    \/ auto_connect_done

AutoSpec == AutoInit /\ [][AutoNext]_vars

\* ------------------------------------------- the config file and Docker
\* a command is the list of its words
DetachedCommand == <<"docker", "run", "--detach", "--name", "kb", "image">>
UnnamedCommand == <<"docker", "run", "--detach", "image">>
PlainCommand == <<"python", "-m", "server">>
InteractiveCommand == <<"docker", "run", "-i", "--name", "kb", "image">>
Words(command) == {command[i] : i \in 1..Len(command)}

\* getattr(self.spec, 'docker_config', {}) of a spec without the attribute
NoDockerConfig == [container_name |-> "", interactive_restart_command |-> <<>>,
                   restart_on_connect |-> FALSE]
\* the docker_config blocks a config file may carry: none, complete ones,
\* one without its restart command
DockerConfigs ==
    {NoDockerConfig}
    \cup {[container_name |-> "kb", interactive_restart_command |-> InteractiveCommand,
           restart_on_connect |-> b] : b \in BOOLEAN}
    \cup {[container_name |-> "kb", interactive_restart_command |-> <<>>,
           restart_on_connect |-> TRUE]}

\* the values of the items of mcp_servers: a mapping with its keys, or
\* something that is no mapping (a string, a list, nothing)
EntryBodies ==
    {[mapping |-> TRUE, command |-> c, docker_config |-> d] :
        c \in {DetachedCommand, UnnamedCommand, PlainCommand}, d \in DockerConfigs}
    \cup {[mapping |-> FALSE, command |-> <<>>, docker_config |-> NoDockerConfig]}
EntryNames == {"knowledge_base", "custom_a", "custom_b"}

\* config files: up to MaxEntries items under distinct names
Configs ==
    {cfg \in UNION {[1..n -> [name : EntryNames, body : EntryBodies]] : n \in 0..MaxEntries} :
        \A i, j \in 1..Len(cfg) : i # j => cfg[i].name # cfg[j].name}

\* _load_builtin_servers, mcp_registry.py:62-126, by name and command
BuiltinServers ==
    << [name |-> "tavily", command |-> <<"npx", "tavily-mcp">>,
        docker_config |-> NoDockerConfig],
       [name |-> "bcra", command |-> <<"npx", "bcra-mcp">>,
        docker_config |-> NoDockerConfig] >>

\* MCPServerSpec(name=..., command=spec.get('command', []), ...),
\* mcp_registry.py:142-151: the keys that are read are the fields of the
\* dataclass; docker_config is not among them
SpecFromEntry(entry) ==
    [name |-> entry.name, command |-> entry.body.command,
     docker_config |-> NoDockerConfig]

\* register_server, mcp_registry.py:185-188
register_server(specs, spec) ==
    IF spec.name \in Keys(specs)
    THEN [i \in 1..Len(specs) |-> IF specs[i].name = spec.name THEN spec ELSE specs[i]]
    ELSE Append(specs, spec)

RECURSIVE Loaded(_, _)
\* the loop of _load_config_file, mcp_registry.py:141-152, inside its try:
\* spec.get raises on an item that is no mapping, and the except at 156 is
\* outside the loop
Loaded(specs, entries) ==
    IF entries = <<>> THEN specs
    ELSE IF ~Head(entries).body.mapping THEN specs
    ELSE Loaded(register_server(specs, SpecFromEntry(Head(entries))), Tail(entries))

\* ---- yaml.dump and yaml.safe_load, on the values of the default config
\* Python scalars: a str, an int or a bool, with the text it prints as
Str(text) == [kind |-> "scalar", type |-> "str", text |-> text]
Int(text) == [kind |-> "scalar", type |-> "int", text |-> text]
Bool(text) == [kind |-> "scalar", type |-> "bool", text |-> text]
List(items) == [kind |-> "list", items |-> items]
Dict(items) == [kind |-> "dict", items |-> items]

\* the type yaml's implicit resolvers give to a plain scalar
Resolves(text) ==
    IF text \in {"true", "false", "yes", "no", "on", "off"} THEN "bool"
    ELSE IF text \in {"0", "1"} THEN "int"
    ELSE IF text \in {"", "null", "~"} THEN "null"
    ELSE "str"

\* yaml.dump of a scalar: a str that would be read back as something else is
\* written in quotes
represent(value) ==
    [text |-> value.text,
     style |-> IF value.type = "str" /\ Resolves(value.text) # "str"
               THEN "quoted" ELSE "plain"]

\* yaml.safe_load of a scalar
construct(scalar) ==
    [kind |-> "scalar",
     type |-> IF scalar.style = "quoted" THEN "str" ELSE Resolves(scalar.text),
     text |-> scalar.text]

\* yaml.dump(..., default_flow_style=False) of a value: a scalar, a block
\* sequence of scalars, a block mapping of scalars
yaml_dump(value) ==
    CASE value.kind = "scalar" -> [node |-> "scalar", scalar |-> represent(value)]
      [] value.kind = "list" ->
            [node |-> "sequence",
             items |-> [i \in 1..Len(value.items) |-> represent(value.items[i])]]
      [] OTHER ->
            [node |-> "mapping",
             items |-> [i \in 1..Len(value.items) |->
                           [key |-> value.items[i].key,
                            scalar |-> represent(value.items[i].value)]]]

yaml_safe_load(node) ==
    CASE node.node = "scalar" -> construct(node.scalar)
      [] node.node = "sequence" ->
            List([i \in 1..Len(node.items) |-> construct(node.items[i])])
      [] OTHER ->
            Dict([i \in 1..Len(node.items) |->
                     [key |-> node.items[i].key, value |-> construct(node.items[i].scalar)]])

\* a plausible slip: a default config without its example entry
default_config_without_example == <<>>

\* default_config['mcp_servers'], mcp_registry.py:164-176: its items, each
\* with the keys of the entry
default_config ==
    << [name |-> "custom_server_example",
        keys |-> [description |-> Str("Ejemplo de servidor personalizado"),
                  command |-> List(<<Str("python"), Str("-m"), Str("my_custom_mcp_server")>>),
                  env_vars |-> Dict(<<[key |-> "API_KEY", value |-> Str("$MY_API_KEY")]>>),
                  required_env_keys |-> List(<<Str("MY_API_KEY")>>),
                  capabilities |-> List(<<Str("custom_capability")>>),
                  priority |-> Int("1"),
                  auto_connect |-> Bool("false")]] >>

\* the text yaml.dump writes for the items, and what yaml.safe_load makes
\* of that text
Dumped(items) ==
    [i \in 1..Len(items) |->
        [name |-> items[i].name,
         keys |-> [k \in DOMAIN items[i].keys |-> yaml_dump(items[i].keys[k])]]]
SafeLoaded(text) ==
    [i \in 1..Len(text) |->
        [name |-> text[i].name,
         keys |-> [k \in DOMAIN text[i].keys |-> yaml_safe_load(text[i].keys[k])]]]

\* the item as _load_config_file reads it: spec.get('command', []), and no
\* docker_config key
AsEntry(item) ==
    [name |-> item.name,
     body |-> [mapping |-> TRUE,
               command |-> IF "command" \in DOMAIN item.keys /\ item.keys["command"].kind = "list"
                           THEN [i \in 1..Len(item.keys["command"].items) |->
                                    item.keys["command"].items[i].text]
                           ELSE <<>>,
               docker_config |-> NoDockerConfig]]

\* _create_default_config, mcp_registry.py:159-183, where config_path can be
\* written: the file now holds the dump of default_config
create_default_config ==
    LET text == Dumped(default_config)
    IN /\ config_file' = "generated"
       /\ config' = [i \in 1..Len(text) |-> AsEntry(SafeLoaded(text)[i])]

\* spec.get raised inside the loop: the except at 156 logs an error
LoadFails(entries) == \E i \in 1..Len(entries) : ~entries[i].body.mapping

\* _load_config_file, mcp_registry.py:128-157, as MCPServerRegistry.__init__
\* runs it after _load_builtin_servers; a second run is the next start of
\* the program, on the file the first run has generated
load_config_file ==
    /\ \/ mlast = NoCall
       \/ mlast.oper = "_load_config_file" /\ mlast.created
    /\ IF config_file = "missing"
       THEN /\ create_default_config
            /\ mlast' = [oper |-> "_load_config_file", ret |-> "None", created |-> TRUE,
                         error |-> FALSE, file |-> config_file]
            /\ UNCHANGED servers
       ELSE /\ servers' = Loaded(servers, config)
            /\ mlast' = [oper |-> "_load_config_file", ret |-> "None", created |-> FALSE,
                         error |-> LoadFails(config), file |-> config_file]
            /\ UNCHANGED <<config, config_file>>
    /\ UNCHANGED <<environ, commands, container, mcall, sent, mgrVars, stream,
                   connVars, pipeVars, taskVars>>

\* connect() of a spec whose command has docker and --detach, from
\* mcp_client.py:73-77 through _handle_detached_container (344-371) and
\* _connect_to_existing_container (373-467) to the write of initialize or to
\* an earlier return; `existed` remembers whether docker ps found the
\* container (history)
connect_detached(name) ==
    /\ mlast.oper = "_load_config_file"
    /\ name \in Keys(servers)
    /\ {"docker", "--detach"} \subseteq Words(SpecOf(name).command)
    /\ LET spec == SpecOf(name)
           named == "--name" \in Words(spec.command)
           create == named /\ container = "none"
           handled == IF ~named THEN <<>>
                      ELSE IF create THEN <<"docker ps", "docker run --detach">>
                      ELSE <<"docker ps">>
           after == IF create THEN "detached" ELSE container
           docker_config == spec.docker_config
           Ends(ran, state, ret) ==
               /\ commands' = handled \o ran
               /\ container' = state
               /\ mlast' = [oper |-> "connect", name |-> name, ret |-> ret,
                            existed |-> named /\ container # "none"]
       IN IF docker_config = NoDockerConfig
          THEN Ends(<<>>, after, "False")
          ELSE IF \/ docker_config.container_name = ""
                  \/ docker_config.interactive_restart_command = <<>>
          THEN Ends(<<>>, after, "False")
          ELSE \E ret \in {"True", "False"} :
                  Ends((IF docker_config.restart_on_connect
                        THEN <<"docker stop", "docker rm">> ELSE <<>>)
                       \o <<"interactive_restart_command", "initialize">>,
                       "interactive", ret)
    /\ UNCHANGED <<servers, environ, config, config_file, mcall, sent, mgrVars, stream,
                   connVars, pipeVars, taskVars>>

\* the registry with its built-in specs, before it reads a config file
ConfigInit ==
    /\ ConnInit /\ TaskInit /\ ReadIdle /\ CallIdle
    /\ connections = <<>> /\ conns = <<>>
    /\ mpc = [t \in Tasks |-> "idle"] /\ mconn = [t \in Tasks |-> 0]
    /\ servers = BuiltinServers
    /\ environ = <<>> /\ commands = <<>>
    /\ \/ config_file = "user" /\ config \in Configs
       \/ config_file = "missing" /\ config = <<>>
    /\ container \in {"none", "detached"}

ConfigNext ==
    \/ load_config_file
    \/ \E name \in EntryNames : connect_detached(name)

ConfigSpec == ConfigInit /\ [][ConfigNext]_vars

\* ------------------------------------------- is_available, get_runtime_env
\* a value of env_vars is the list of its pieces: "$", "{", "}" and words
EnvNames == {"VAR", "OTHER"}
DollarVar == <<"$", "VAR">>
DollarBracedVar == <<"$", "{", "VAR", "}">>
DollarOther == <<"$", "OTHER">>
Literal == <<"production">>
TemplateValues == {DollarVar, DollarBracedVar, DollarOther, Literal}
TemplateKeys == {"API_KEY", "MODE"}

\* the text of an environment value, in pieces
Text(value) == IF value = "" THEN <<>> ELSE <<value>>

\* os.getenv(env_key, ""): the names of the environment are single words,
\* so a key of several pieces ("{", "VAR", "}") names no variable
getenv(env_key) ==
    IF Len(env_key) = 1 /\ env_key[1] \in DOMAIN environ /\ environ[env_key[1]] # Unset
    THEN Text(environ[env_key[1]])
    ELSE <<>>

\* MCPServerSpec.get_runtime_env, mcp_registry.py:37-47:
\* value.startswith("$"), env_key = value[1:]
get_runtime_env(spec) ==
    [key \in DOMAIN spec.env_vars |->
        LET value == spec.env_vars[key]
        IN IF value # <<>> /\ Head(value) = "$" THEN getenv(Tail(value)) ELSE value]

\* spec.is_available() on the one registered spec
call_is_available ==
    /\ mlast = NoCall
    /\ mlast' = [oper |-> "is_available", ret |-> is_available(servers[1])]
    /\ UNCHANGED <<regVars, mcall, sent, mgrVars, stream, connVars, pipeVars, taskVars>>

\* spec.get_runtime_env() on the one registered spec, as connect() calls it
\* at mcp_client.py:61
call_get_runtime_env ==
    /\ mlast = NoCall
    /\ mlast' = [oper |-> "get_runtime_env", ret |-> get_runtime_env(servers[1])]
    /\ UNCHANGED <<regVars, mcall, sent, mgrVars, stream, connVars, pipeVars, taskVars>>

\* one spec, with any required keys and env_vars, in any environment
EnvInit ==
    /\ ConnInit /\ TaskInit /\ ReadIdle /\ CallIdle
    /\ connections = <<>> /\ conns = <<>>
    /\ mpc = [t \in Tasks |-> "idle"] /\ mconn = [t \in Tasks |-> 0]
    /\ environ \in [EnvNames -> EnvValues]
    /\ \E keys \in SUBSET EnvNames, env_vars \in [TemplateKeys -> TemplateValues] :
          servers = << [name |-> "custom", required_env_keys |-> keys,
                        env_vars |-> env_vars] >>
    /\ commands = <<>> /\ config = <<>> /\ container = "none" /\ config_file = "missing"

EnvNext ==
    \/ call_is_available
    \/ call_get_runtime_env

EnvSpec == EnvInit /\ [][EnvNext]_vars

\* -------------------------------------- failures and the other Connections
\* registries of three specs with no required key, by priority and
\* auto_connect
FrameNames == <<Srv, Extra, SrvExtra>>
FrameRegistries ==
    {[i \in 1..Len(FrameNames) |->
         [name |-> FrameNames[i], required_env_keys |-> {},
          capabilities |-> {}, priority |-> i, auto_connect |-> auto[i]]] :
       auto \in [1..Len(FrameNames) -> BOOLEAN]}

\* a child of the Manager ends by itself, at any time
child_exits(c) ==
    /\ c <= Len(conns)
    /\ conns[c].process = "alive"
    /\ conns' = [conns EXCEPT ![c].process = "exited"]
    /\ UNCHANGED <<connections, mpc, mconn, callVars, regVars, stream, connVars,
                   pipeVars, taskVars>>

\* a Manager that is started with auto_connect_servers and then used for
\* calls, with connects and calls that may fail
FrameInit ==
    /\ ConnInit /\ TaskInit /\ ReadIdle /\ CallIdle
    /\ servers \in FrameRegistries
    /\ environ = <<>> /\ commands = <<>> /\ config = <<>>
    /\ container = "none" /\ config_file = "missing"
    /\ conns = <<>> /\ connections = <<>>
    /\ mpc = [t \in Tasks |-> "idle"] /\ mconn = [t \in Tasks |-> 0]

FrameNext ==
    \/ auto_connect_servers
    \/ auto_connect_next
    \/ auto_connect_returns
    \/ auto_connect_done
    \/ \E function_name \in FunctionNames : call_tool_by_function_name(function_name)
    \/ \E c \in 1..Len(FrameNames) : child_exits(c)

FrameSpec == FrameInit /\ [][FrameNext]_vars

\* ------------------------------------------------------------------ claims
\* C1: a value that call_tool or read_resource returns is taken from the
\* response to the request that this very call wrote, never from the
\* response to an earlier request (callers one after another, as in Spec).
C1_ReturnsOwnResponse ==
    (last.oper \in {"call_tool", "read_resource"} /\ last.ret.kind = "result")
        => last.ret.id = last.req

\* C4: after connect() has returned True the Connection is Connected; after
\* it has returned False, at whatever point it failed, the Connection is not
\* Connected and its tool and resource maps are empty.
C4_ConnectOutcome ==
    last.oper = "connect" =>
        IF last.ret = RetTrue
        THEN is_connected
        ELSE ~is_connected /\ tools = {} /\ resources = {}

\* connect() has failed after the child was spawned and had answered
C4_Witness ==
    /\ last.oper = "connect" /\ last.ret = RetFalse
    /\ last.cause \in {"error_envelope", "timeout", "eof", "send_error"}
    /\ proc # "none"

\* C5: call_tool with a name that is not in the tool map returns a failure
\* and writes nothing to the child, in every state of the Connection.
C5_UnknownToolWritesNothing ==
    [][\A name \in ToolNames :
          (name \notin tools /\ \E arguments \in Arguments : call_tool(Main, name, arguments)) =>
              /\ stdin' = stdin /\ nextId' = nextId
              /\ pc'[Main] = "idle"
              /\ last'.oper = "call_tool" /\ last'.ret = RetNone]_vars

\* an unknown name was refused by a Connected connection that knows a tool
C5_Witness ==
    /\ last.oper = "call_tool" /\ last.cause = "unknown_tool"
    /\ is_connected /\ tools # {} /\ proc = "alive"

\* C6: when the child answers a tools/call with an error envelope, call_tool
\* returns a failure and the Connection is left as it was: Connected, its
\* subprocess untouched, its maps unchanged.
C6_ErrorLeavesConnection ==
    [][(/\ pc[Main] = "read" /\ op[Main] = "tools/call"
        /\ stdout # <<>> /\ ~SkipsLine(Head(stdout)) /\ Head(stdout).body = "error"
        /\ read_response(Main)) =>
           /\ last'.oper = "call_tool" /\ last'.ret = RetNone
           /\ is_connected' /\ proc' = proc /\ proc' # "terminated"
           /\ tools' = tools /\ resources' = resources]_vars

\* a call_tool has succeeded with its own response after an earlier one was
\* answered with an error envelope
C6_Witness ==
    /\ errorSeen
    /\ last.oper = "call_tool" /\ last.ret.kind = "result" /\ last.ret.id = last.req

\* C7: when the child answers a tools/call with an error envelope, the value
\* call_tool hands back carries the error (its code and message), so it
\* differs from what a timeout or an unknown tool name gives.
C7_ErrorReachesCaller ==
    (last.oper = "call_tool" /\ last.cause = "error_envelope") => last.ret.kind = "error"

\* C8: after call_tool or read_resource has met a transport failure (the
\* write raised, or the read got end of file), the Connection is no longer
\* Connected.
C8_TransportFailureDisconnects ==
    (last.oper \in {"call_tool", "read_resource"} /\ last.cause \in {"send_error", "eof"})
        => ~is_connected


\* the calls that have written a request and have not returned
Outstanding == {t \in Tasks : pc[t] \in {"drain", "read"}}

\* C2: at most one request is outstanding on a Connection: no call_tool or
\* read_resource has written its request while another call has written its
\* own and has neither read its response nor given up.
C2_OneOutstandingRequest == Cardinality(Outstanding) <= 1

LiveChildren(name) ==
    {c \in 1..Len(conns) : conns[c].name = name /\ conns[c].process = "alive"}

\* the Manager still has the object: in self.connections, or in the local
\* variable of a connect_server that is running
Held(c) ==
    \/ \E i \in 1..Len(connections) : connections[i].conn = c
    \/ \E t \in Tasks : mpc[t] = "connecting" /\ mconn[t] = c

\* C3: at most one live subprocess spawned by the Manager exists per server
\* name, and every live one is still referenced by the Manager.
C3_OneProcessPerName ==
    \A name \in ServerNames :
        /\ Cardinality(LiveChildren(name)) <= 1
        /\ \A c \in LiveChildren(name) : Held(c)

\* C9: every connect() and every call_tool returns, also when the child has
\* stopped reading and writing.
C9_EveryOperationReturns ==
    (pc[Main] # "idle" /\ op[Main] # "disconnect") ~> (pc[Main] = "idle")

\* 0 to 4 non-protocol lines, then one response line with a result
NoiseThenResult(st) ==
    /\ Len(st) \in 1..max_attempts
    /\ \A i \in 1..(Len(st) - 1) : st[i] \in NonProtocolLines
    /\ st[Len(st)].kind = "json" /\ st[Len(st)].body = "result"

\* C10: when the child's output is 0 to 4 non-protocol lines followed by one
\* response line with a result, the call returns what that line holds,
\* whatever text the line contains.
C10_NoiseTolerantRead ==
    (pc[Main] = "idle" /\ NoiseThenResult(stream)) =>
        /\ last.oper = "call_tool"
        /\ last.ret = RetResult(Parsed(stream[Len(stream)]))

\* the Connection registered under a server name
ConnOf(server_name) ==
    (CHOOSE i \in 1..Len(connections) : connections[i].name = server_name)

\* C11: call_tool_by_function_name with the name S_T, S a connected server
\* and the name not starting with another connected server's name and "_",
\* forwards exactly one call_tool(T) to the Connection of S and nothing to
\* any other, whatever the order in which the servers were connected.
C11_RoutesByExactPrefix ==
    [][\A server \in RouteServers, tool \in RouteTools :
          ( /\ server \in Keys(connections)
            /\ \A other \in Keys(connections) \ {server} :
                  ~StartsWith(server \o Us \o tool, other \o Us)
            /\ call_tool_by_function_name(server \o Us \o tool) )
          => sent' = Append(sent, [conn |-> connections[ConnOf(server)].conn,
                                   tool |-> tool])]_vars

\* srv_t was forwarded to srv although srv_extra was connected before it
C11_Witness ==
    /\ Len(connections) >= 2
    /\ connections[1].name = SrvExtra
    /\ Srv \in Keys(connections)
    /\ mlast.oper = "call_tool_by_function_name" /\ mlast.arg = Srv \o Us \o <<"t">>
    /\ sent # <<>>
    /\ sent[Len(sent)] = [conn |-> connections[ConnOf(Srv)].conn, tool |-> <<"t">>]

\* the names of the Connections on which this call_tool_smart called connect()
SmartAttempts == [i \in 1..(Len(conns) - mlast.conns0) |-> conns[mlast.conns0 + i].name]
Count(seq, x) == Cardinality({i \in 1..Len(seq) : seq[i] = x})

C13_DisconnectAllLeavesNothing ==
    mlast.oper = "disconnect_all" =>
        /\ mlast.ret = "None"
        /\ \A c \in mlast.held : conns[c].process # "alive"
        /\ mlast.stats = [total_servers |-> 0, connected_servers |-> 0, total_tools |-> 0]

\* C14: the keys of what get_available_tools returns are exactly the servers
\* in self.connections whose Connection is Connected, each once, and each
\* is mapped to exactly the names in that Connection's tool map; with no
\* connection the result is empty.
C14_ToolsOfConnectedServers ==
    [][get_available_tools =>
          LET ret == mlast'.ret
          IN /\ \A name \in ServerNames :
                   Cardinality({i \in 1..Len(ret) : ret[i].name = name}) =
                       IF /\ name \in Keys(connections)
                          /\ conns[connections[ConnOf(name)].conn].is_connected
                       THEN 1 ELSE 0
             /\ \A i \in 1..Len(ret) :
                   ret[i].tools = conns[connections[ConnOf(ret[i].name)].conn].tools
             /\ connections = <<>> => ret = <<>>]_vars

\* a catalogue with a tool in it, taken while another server of the map was
\* not Connected
C14_Witness ==
    /\ mlast.oper = "get_available_tools"
    /\ \E i \in 1..Len(mlast.ret) : mlast.ret[i].tools # {}
    /\ \E i \in 1..Len(connections) :
          /\ ~conns[connections[i].conn].is_connected
          /\ \A k \in 1..Len(mlast.ret) : mlast.ret[k].name # connections[i].name

\* the Connections on which the running or the latest auto_connect_servers
\* has called connect(), in the order of the calls
AutoConns0 == IF mcall.oper = "auto_connect_servers" THEN mcall.conns0 ELSE mlast.conns0
AutoAttempts == [i \in 1..(Len(conns) - AutoConns0) |-> conns[AutoConns0 + i].name]
AutoResults ==
    IF mcall.oper = "auto_connect_servers" THEN mcall.connection_results ELSE mlast.ret
InAuto == mcall.oper = "auto_connect_servers" \/ mlast.oper = "auto_connect_servers"

\* C15: auto_connect_servers calls connect() in non-increasing priority
\* order, and calls it on one spec only after the call on the one before
\* has returned.
C15_AttemptsByPriority ==
    InAuto =>
        /\ \A i, j \in 1..Len(AutoAttempts) :
              i < j => SpecOf(AutoAttempts[i]).priority >= SpecOf(AutoAttempts[j]).priority
        /\ \A i \in 1..Len(AutoAttempts) :
              \/ \E k \in 1..Len(AutoResults) : AutoResults[k].name = AutoAttempts[i]
              \/ i = Len(AutoAttempts) /\ mcall # NoCall /\ mcall.pending = AutoConns0 + i

\* specs registered with priorities 5, 1, 10 were attempted in the order
\* 10, 5, 1
C15_Witness ==
    /\ mlast.oper = "auto_connect_servers"
    /\ [i \in 1..Len(servers) |-> servers[i].priority] = <<5, 1, 10>>
    /\ AutoAttempts = <<AutoNames[3], AutoNames[1], AutoNames[2]>>

EntryOf(name) == config[CHOOSE i \in 1..Len(config) : config[i].name = name]
IndexIn(seq, x) ==
    IF \E i \in 1..Len(seq) : seq[i] = x
    THEN CHOOSE i \in 1..Len(seq) : seq[i] = x /\ \A j \in 1..(i - 1) : seq[j] # x
    ELSE 0

\* C17: connect() of a server whose config entry has a docker --detach
\* command and a docker_config with restart_on_connect, and whose container
\* exists, runs docker stop, then docker rm, then the interactive restart
\* command, and writes initialize after them, to that process.
C17_RestartBeforeHandshake ==
    ( /\ mlast.oper = "connect" /\ mlast.existed
      /\ EntryOf(mlast.name).body.docker_config.restart_on_connect
      /\ EntryOf(mlast.name).body.docker_config.interactive_restart_command # <<>> )
    => /\ 0 < IndexIn(commands, "docker stop")
       /\ IndexIn(commands, "docker stop") < IndexIn(commands, "docker rm")
       /\ IndexIn(commands, "docker rm") < IndexIn(commands, "interactive_restart_command")
       /\ IndexIn(commands, "interactive_restart_command") < IndexIn(commands, "initialize")

\* C20: loading a config file with a malformed entry does not raise, every
\* well-formed entry of the file is registered, before or after the
\* malformed one, and the built-in specs stay registered.
C20_LoadSkipsMalformedEntry ==
    (mlast.oper = "_load_config_file" /\ ~mlast.created) =>
        /\ mlast.ret = "None"
        /\ \A i \in 1..Len(config) : config[i].body.mapping => config[i].name \in Keys(servers)
        /\ Keys(BuiltinServers) \subseteq Keys(servers)

\* C18: is_available(spec) is true exactly when every key of
\* required_env_keys is set in the process environment, whatever its value,
\* the empty string included; so it is true when required_env_keys is empty.
C18_AvailableIffKeysPresent ==
    mlast.oper = "is_available" =>
        (mlast.ret <=> \A key \in servers[1].required_env_keys : environ[key] # Unset)

\* C19: get_runtime_env maps a value $VAR or ${VAR} to the value of VAR in
\* the environment, or to the empty string when VAR is unset, maps a
\* literal value to itself, and keeps the keys of env_vars.
C19_ResolvesDollarAndBraces ==
    mlast.oper = "get_runtime_env" =>
        /\ DOMAIN mlast.ret = DOMAIN servers[1].env_vars
        /\ \A key \in DOMAIN servers[1].env_vars :
              LET value == servers[1].env_vars[key]
                  Of(name) == IF environ[name] = Unset THEN <<>> ELSE Text(environ[name])
              IN /\ value \in {DollarVar, DollarBracedVar} => mlast.ret[key] = Of("VAR")
                 /\ value = DollarOther => mlast.ret[key] = Of("OTHER")
                 /\ value = Literal => mlast.ret[key] = Literal

AfterHandshake == {"tools/list", "resources/list", "tools/call", "resources/read"}

\* C22: no tools/list, resources/list, tools/call or resources/read request
\* is written to the child before its initialize request was answered with
\* a result and notifications/initialized was written; so call_tool and
\* read_resource write nothing before connect(), after a failed connect()
\* and after disconnect().
C22_HandshakeBeforeRequests ==
    [][ (/\ Len(stdin') = Len(stdin) + 1
         /\ stdin'[Len(stdin')].method \in AfterHandshake)
        => handshakeDone /\ proc = "alive" ]_vars
C22_Witness ==
    /\ \E i \in 1..Len(stdin) : stdin[i].method = "tools/call"
    /\ handshakeDone

\* C23: the Connection is Connected only after tool discovery and resource
\* discovery have finished: while the tools/list or resources/list exchange
\* of connect() is in progress, is_connected is false.
C23_ConnectedAfterDiscovery ==
    \A t \in Tasks :
        (Busy(t) /\ op[t] \in {"tools/list", "resources/list"}) => ~is_connected

\* C24: once a connect() that had spawned its subprocess has returned
\* failure, that subprocess is not alive.
C24_FailedConnectKillsChild ==
    (last.oper = "connect" /\ last.ret = RetFalse) => proc # "alive"

\* the step reads a line of the child that holds a result
ReadsResult ==
    /\ stdout # <<>> /\ stdout' = Tail(stdout)
    /\ ~SkipsLine(Head(stdout)) /\ Head(stdout).body = "result"
\* the entries of that result, under the key the discovery of `method` reads
ReadItems(method) == ListOf(Parsed(Head(stdout)), method)
Entries(items) == {items[i] : i \in 1..Len(items)}

\* C25: the tool map (resource map) gets entries only after the handshake
\* and only from a tools/list (resources/list) result whose whole array was
\* parsed: a discovery that fails at an entry without a name (uri) leaves no
\* entry of that response in the map.
C25_MapsFromWholeLists ==
    [][ /\ tools' # tools =>
              /\ handshakeDone /\ ReadsResult
              /\ NoName \notin Entries(ReadItems("tools/list"))
              /\ tools' = tools \cup Entries(ReadItems("tools/list"))
        /\ resources' # resources =>
              /\ handshakeDone /\ ReadsResult
              /\ NoName \notin Entries(ReadItems("resources/list"))
              /\ resources' = resources \cup Entries(ReadItems("resources/list")) ]_vars

\* the step ends the discovery of `method` inside connect()
EndsDiscovery(method) == op[Main] = method /\ op'[Main] # method

\* C26: after a successful handshake, a tools/list or resources/list that is
\* answered with an error envelope, with a result without a list, or with
\* nothing leaves its map empty and the Connection Connected; resource
\* discovery is attempted after tool discovery however that ended, and
\* connect() returns success.
C26_DiscoveryFailureTolerated ==
    [][ /\ EndsDiscovery("tools/list") =>
              /\ is_connected'
              /\ ~(ReadsResult /\ ReadItems("tools/list") # <<>>) => tools' = {}
              /\ \/ op'[Main] = "resources/list"
                 \/ proc # "alive" /\ last'.oper = "connect" /\ last'.ret = RetTrue
        /\ EndsDiscovery("resources/list") =>
              /\ is_connected'
              /\ ~(ReadsResult /\ ReadItems("resources/list") # <<>>) => resources' = {}
              /\ last'.oper = "connect" /\ last'.ret = RetTrue ]_vars
\* tool discovery has ended with an empty map and resources/list is about to
\* read the error envelope that answers it
C26_Witness ==
    /\ Busy(Main) /\ op[Main] = "resources/list" /\ pc[Main] = "read"
    /\ is_connected /\ tools = {} /\ proc = "alive"
    /\ stdout # <<>> /\ Head(stdout).body = "error" /\ Head(stdout).id = req[Main]

\* the step in which connection.connect() of auto_connect_servers returns
\* False
ConnectFails ==
    /\ mcall.oper = "auto_connect_servers" /\ mcall.pending # 0
    /\ mcall'.oper = "auto_connect_servers" /\ mcall'.pending = 0
    /\ ~mcall'.connection_results[Len(mcall'.connection_results)].success
\* the step in which a forwarded call_tool returns None
CallFails ==
    /\ Len(sent') = Len(sent) + 1
    /\ mlast'.oper = "call_tool_by_function_name" /\ mlast'.ret = "None"
OthersUnchanged(c) ==
    /\ Len(conns') = Len(conns)
    /\ \A d \in 1..Len(conns) : d # c => conns'[d] = conns[d]
    /\ connections' = connections

\* C27: a failed connect or call on one server leaves every other
\* Connection (flag, tools, subprocess) and the Manager's map as they were;
\* the failure is a value (False, None), a failed connect inside
\* auto_connect_servers is recorded as false and the remaining specs are
\* still attempted, each spec getting its entry in what is returned.
C27_FailureIsLocal ==
    [][ /\ ConnectFails =>
              /\ OthersUnchanged(mcall.pending)
              /\ mcall'.connection_results =
                    Append(mcall.connection_results,
                           [name |-> Head(mcall.todo), success |-> FALSE])
              /\ mcall'.todo = Tail(mcall.todo)
        /\ CallFails => OthersUnchanged(sent'[Len(sent')].conn) /\ conns' = conns
        /\ (mcall.oper = "auto_connect_servers" /\ mlast'.oper = "auto_connect_servers") =>
              {mlast'.ret[i].name : i \in 1..Len(mlast'.ret)} = mcall.auto_connect_specs
      ]_vars
\* a connect has failed and a later one has succeeded; a call forwarded to a
\* server whose child is gone has returned None, and another server is still
\* connected with its child alive
C27_Witness ==
    /\ \E c \in 1..Len(conns) : ~conns[c].is_connected
    /\ mlast.oper = "call_tool_by_function_name" /\ mlast.ret = "None"
    /\ sent # <<>> /\ conns[sent[Len(sent)].conn].process = "exited"
    /\ \E i \in 1..Len(connections) :
          /\ connections[i].conn # sent[Len(sent)].conn
          /\ conns[connections[i].conn].is_connected
          /\ conns[connections[i].conn].process = "alive"

\* the items of self.connections that are Connected, advertise the
\* capability of the call and expose its tool
SmartCandidates ==
    {i \in 1..Len(connections) :
        /\ conns[connections[i].conn].is_connected
        /\ mlast.capability \in SpecOf(connections[i].name).capabilities
        /\ mlast.tool_name \in conns[connections[i].conn].tools}

\* C28: when several Connected servers advertise the capability and expose
\* the tool, call_tool_smart invokes the tool on the one with the highest
\* priority among them, however these servers were connected.
C28_SmartPrefersPriority ==
    (mlast.oper = "call_tool_smart" /\ sent # <<>>) =>
        \A i \in SmartCandidates :
            conns[sent[Len(sent)].conn].name = connections[i].name
            \/ SpecOf(conns[sent[Len(sent)].conn].name).priority
                   > SpecOf(connections[i].name).priority

\* C29: with servers S and S_extra connected, in either order,
\* call_tool_by_function_name("S_extra_" + T) forwards call_tool(T) to the
\* Connection of S_extra and sends nothing to S.
C29_QualifiedNameRoutesToOwner ==
    [][\A tool \in RouteTools :
          ( /\ {Srv, SrvExtra} \subseteq Keys(connections)
            /\ mlast'.oper = "call_tool_by_function_name"
            /\ mlast'.arg = SrvExtra \o Us \o tool
            /\ mlast' # mlast )
          => sent' = Append(sent, [conn |-> connections[ConnOf(SrvExtra)].conn,
                                   tool |-> tool])]_vars

\* the objects that self.connections holds
Registered_conns(items) == {items[i].conn : i \in 1..Len(items)}

\* C30: when a connect operation of the Manager has completed while
\* disconnect_all was suspended awaiting a child's exit, disconnect_all
\* still ends without raising, and when it has ended every Connected
\* Connection with a live subprocess is held in self.connections.
C30_DisconnectAllDuringConnect ==
    [][ ( /\ mcall.oper = "disconnect_all" /\ mcall' = NoCall
          /\ Len(connections) # mcall.size )
        => /\ mlast'.ret = "None"
           /\ \A c \in 1..Len(conns') :
                 (conns'[c].is_connected /\ conns'[c].process = "alive")
                     => c \in Registered_conns(connections') ]_vars

====
